---- MODULE Spec2Model ----
(***************************************************************************)
(* Model of the reassembly core of skarlekar/deepinsight:                  *)
(*   backend/utils/enhanced_extraction.py  EntityRegistry,                 *)
(*       RelationshipResolver, EnhancedExtractionProcessor                 *)
(*   backend/utils/file_processor.py       chunk_text                      *)
(*   backend/extractions/routes.py         the per-chunk loop that buffers *)
(*       relationships and calls finalize_extraction                       *)
(*                                                                         *)
(* Strings are sequences of one-character strings, so that strip(),        *)
(* title(), upper(), isalpha() and endswith() are computed, not assumed.   *)
(* Identifiers such as "org_1" are sequences of tokens in which "_" is a   *)
(* token of its own; str.endswith("_" + temp_id) on the characters and     *)
(* suffix on the tokens agree because the pattern starts with "_".         *)
(* Python dicts are insertion-ordered: they are sequences of key/value     *)
(* records here.  uuid.uuid4() is a fresh value drawn from a counter.      *)
(*                                                                         *)
(* Seven specifications share the variables:                               *)
(*   RegistrySpec  direct EntityRegistry.register_entity calls             *)
(*   Spec          one EnhancedExtractionProcessor driven as routes.py     *)
(*                 drives it: process_chunk_results / finalize_extraction  *)
(*   ChunkSpec     one run of chunk_text, one loop iteration per step      *)
(*   RaceSpec      two threads calling register_entity on one registry     *)
(*   JobsSpec      two extraction jobs, each with its own processor        *)
(*   RouteSpec     one run of process_data_extraction: chunk_text, the     *)
(*                 loop over its chunks, finalize_extraction               *)
(*   NormalizeSpec one call of EntityRegistry._normalize_name              *)
(***************************************************************************)
EXTENDS Integers, Sequences, FiniteSets, TLC

VARIABLES
    entities,                  \* EntityRegistry.entities        {(type, normalized_name): guid}
    ai_id_mapping,             \* EntityRegistry.ai_id_mapping   {"chunk_<id>_<temp_id>": guid}
    entity_details,            \* EntityRegistry.entity_details  {guid: ExtractedEntity}
    resolved_relationships,    \* RelationshipResolver.resolved_relationships
    orphaned_relationships,    \* RelationshipResolver.orphaned_relationships
    next_uuid,                 \* number of uuid.uuid4() values drawn so far
    all_extracted_relationships, \* routes.py: the caller's buffer of relationships
    calls,                     \* history: every register_entity call and what it returned
    last_op,                   \* history: the method called last
    outcome,                   \* history: "returned" or "raised" for last_op
    pcr_calls,                 \* history: number of process_chunk_results calls
    pcr_input,                 \* history: arguments of the last process_chunk_results
    chunk_relationships,       \* what the last process_chunk_results returned
    finalize_input,            \* history: argument of the last finalize_extraction
    final_results,             \* what the last finalize_extraction returned
    finalize_calls,            \* history: number of finalize_extraction calls
    text,                      \* chunk_text: the text argument
    chunk_size,                \* chunk_text: the chunk_size argument
    overlap_percentage,        \* chunk_text: the overlap_percentage argument
    start,                     \* chunk_text: local variable start
    chunks,                    \* chunk_text: local variable chunks
    pc,                        \* chunk_text: "call", "loop" or "returned"
    threads,                   \* RaceSpec: each thread's position in register_entity
    heap,                      \* JobsSpec: the EnhancedExtractionProcessor objects
    jobs,                      \* JobsSpec: each job's locals in process_data_extraction
    extraction,                \* RouteSpec: the Extraction record and the loop position
    normalize_call             \* NormalizeSpec: one _normalize_name call and its result

registryVars == <<entities, ai_id_mapping, entity_details, next_uuid, calls>>
resolverVars == <<resolved_relationships, orphaned_relationships>>
callerVars == <<all_extracted_relationships, last_op, outcome, pcr_calls, pcr_input,
                chunk_relationships, finalize_input, final_results, finalize_calls>>
chunkerVars == <<text, chunk_size, overlap_percentage, start, chunks, pc>>
concurrentVars == <<threads, heap, jobs>>
vars == <<registryVars, resolverVars, callerVars, chunkerVars, concurrentVars,
          extraction, normalize_call>>

----------------------------------------------------------------------------
(* Bounds of the exploration *)

MaxCalls == 3         \* register_entity calls in RegistrySpec
MaxWindows == 3       \* process_chunk_results calls in Spec
MaxFinalize == 2      \* finalize_extraction calls in Spec
MaxTextLen == 10      \* len(text) in ChunkSpec
MaxChunkSize == 4     \* chunk_size in ChunkSpec
MaxChunks == 8        \* windows emitted before the exploration of a run stops

----------------------------------------------------------------------------
(* Python values *)

None == "None"

\* "if not name" for a str: the empty string is falsy
Truthy(name) == name # <<>>

\* "if guid" for an Optional[str] holding a GUID
Found(guid) == guid # None

Range(s) == {s[i] : i \in DOMAIN s}

\* dict operations on an insertion-ordered sequence of [key, value]
DictKeys(d) == {d[i].key : i \in DOMAIN d}

DictHasLastOnly(d, k) == d # <<>> /\ d[Len(d)].key = k

\* k in d
DictHas(d, k) == \E i \in DOMAIN d : d[i].key = k

DictGet(d, k) == d[CHOOSE i \in DOMAIN d : d[i].key = k].value

\* d[k] = v : an existing key keeps its position, a new key goes last
DictSet(d, k, v) ==
    IF DictHas(d, k)
    THEN [i \in DOMAIN d |-> IF d[i].key = k THEN [key |-> k, value |-> v] ELSE d[i]]
    ELSE Append(d, [key |-> k, value |-> v])

\* properties[k] = v on a property map (a function from keys to values)
PropSet(p, k, v) == [x \in (DOMAIN p) \cup {k} |-> IF x = k THEN v ELSE p[x]]

----------------------------------------------------------------------------
(* str methods used by _normalize_name, on sequences of characters *)

LowerLetters == {"i", "s", "t"}
UpperLetters == {"I", "S", "T"}
Whitespace == {" "}

ToUpper(c) == CASE c = "i" -> "I" [] c = "s" -> "S" [] c = "t" -> "T" [] OTHER -> c
ToLower(c) == CASE c = "I" -> "i" [] c = "S" -> "s" [] c = "T" -> "t" [] OTHER -> c
IsAlphaChar(c) == c \in LowerLetters \cup UpperLetters

\* str.strip()
RECURSIVE LStrip(_)
LStrip(s) == IF s # <<>> /\ Head(s) \in Whitespace THEN LStrip(Tail(s)) ELSE s
RECURSIVE RStrip(_)
RStrip(s) ==
    IF s # <<>> /\ s[Len(s)] \in Whitespace
    THEN RStrip(SubSeq(s, 1, Len(s) - 1)) ELSE s
Strip(s) == RStrip(LStrip(s))

\* str.title(): a letter after a cased character is lowered, any other raised
Title(s) ==
    [i \in DOMAIN s |->
        IF i > 1 /\ IsAlphaChar(s[i - 1]) THEN ToLower(s[i]) ELSE ToUpper(s[i])]

\* str.upper(), str.lower()
Upper(s) == [i \in DOMAIN s |-> ToUpper(s[i])]
Lower(s) == [i \in DOMAIN s |-> ToLower(s[i])]

IsNotEmpty(s) == s # <<>>

\* str.isalpha(): false for the empty string
IsAlpha(s) == s # <<>> /\ \A i \in DOMAIN s : IsAlphaChar(s[i])

ShortNameLen == 4

NormalizeNameUnstripped(name) ==
    IF ~Truthy(name) THEN name
    ELSE LET normalized == Title(name)
         IN IF Len(normalized) <= ShortNameLen /\ IsAlpha(normalized)
            THEN Upper(normalized)
            ELSE normalized

\* EntityRegistry._normalize_name
NormalizeName(name) ==
    IF ~Truthy(name) THEN name
    ELSE LET normalized == Title(Strip(name))
         IN IF Len(normalized) <= ShortNameLen /\ IsAlpha(normalized)
            THEN Upper(normalized)
            ELSE normalized

----------------------------------------------------------------------------
(* EntityRegistry *)

\* str(uuid.uuid4()): the n-th value drawn
Uuid(n) == "guid-" \o ToString(n)

\* f"chunk_{entity.chunk_id}_{entity.temp_id}"
TempKey(chunk_id, temp_id) == <<"chunk", "_", ToString(chunk_id), "_">> \o temp_id

EntityKeyRaw(entity) == <<entity.entity_type, entity.name>>

\* lines 76-79: entity_key = (entity.entity_type, normalized_name)
EntityKey(entity) == <<entity.entity_type, NormalizeName(entity.name)>>

\* the registry as one value
Registry == [entities |-> entities, ai_id_mapping |-> ai_id_mapping,
             entity_details |-> entity_details, next_uuid |-> next_uuid,
             calls |-> calls]

StoredEntityAsObserved(entity, normalized_name, guid) ==
    [entity EXCEPT !.temp_id = guid]

\* the entity that a key stores (lines 92-95, 102-104): the observation with
\* its name and properties['name'] set to the normalized name
StoredEntity(entity, normalized_name, guid) ==
    [entity EXCEPT !.name = normalized_name,
                   !.properties = PropSet(entity.properties, "name", normalized_name),
                   !.temp_id = guid]

MergeAtLeastAsComplete(existing_entity, entity, normalized_name, guid) ==
    IF Cardinality(DOMAIN entity.properties) >= Cardinality(DOMAIN existing_entity.properties)
    THEN StoredEntity(entity, normalized_name, guid)
    ELSE existing_entity

\* lines 88-95: "keep most complete version"
Merge(existing_entity, entity, normalized_name, guid) ==
    IF Cardinality(DOMAIN entity.properties) > Cardinality(DOMAIN existing_entity.properties)
    THEN StoredEntity(entity, normalized_name, guid)
    ELSE existing_entity

\* a register_entity call and what it returned, as the history keeps it
Call(entity, result, guid) == [entity |-> entity, outcome |-> result, guid |-> guid]

RegisterExistingLatestWins(reg, entity) ==
    LET entity_key == EntityKey(entity)
        temp_key == TempKey(entity.chunk_id, entity.temp_id)
        existing_guid == DictGet(reg.entities, entity_key)
    IN [reg |-> [reg EXCEPT
             !.ai_id_mapping = DictSet(@, temp_key, existing_guid),
             !.entity_details = DictSet(@, existing_guid,
                 StoredEntity(entity, entity_key[2], existing_guid)),
             !.calls = Append(@, Call(entity, "returned", existing_guid))],
        outcome |-> "returned", guid |-> existing_guid]

\* lines 83-98: the key exists: map the temp id to its GUID, keep the most
\* complete version
RegisterExisting(reg, entity) ==
    LET entity_key == EntityKey(entity)
        temp_key == TempKey(entity.chunk_id, entity.temp_id)
        existing_guid == DictGet(reg.entities, entity_key)
        existing_entity == DictGet(reg.entity_details, existing_guid)
    IN [reg |-> [reg EXCEPT
             !.ai_id_mapping = DictSet(@, temp_key, existing_guid),
             !.entity_details = DictSet(@, existing_guid,
                 Merge(existing_entity, entity, entity_key[2], existing_guid)),
             !.calls = Append(@, Call(entity, "returned", existing_guid))],
        outcome |-> "returned", guid |-> existing_guid]

\* lines 100-115: the key is new: draw a GUID and store the entity under it
RegisterNew(reg, entity) ==
    LET entity_key == EntityKey(entity)
        temp_key == TempKey(entity.chunk_id, entity.temp_id)
        new_guid == Uuid(reg.next_uuid + 1)
    IN [reg |-> [reg EXCEPT
             !.next_uuid = @ + 1,
             !.entities = DictSet(@, entity_key, new_guid),
             !.ai_id_mapping = DictSet(@, temp_key, new_guid),
             !.entity_details = DictSet(@, new_guid,
                 StoredEntity(entity, entity_key[2], new_guid)),
             !.calls = Append(@, Call(entity, "returned", new_guid))],
        outcome |-> "returned", guid |-> new_guid]

\* lines 72-73: raise ValueError for an entity without a name
RegisterRaises(reg, entity) ==
    [reg |-> [reg EXCEPT !.calls = Append(@, Call(entity, "raised", None))],
     outcome |-> "raised", guid |-> None]

\* EntityRegistry.register_entity: the registry after the call and the result
RegisterEntity(reg, entity) ==
    IF ~Truthy(entity.name) THEN RegisterRaises(reg, entity)
    ELSE IF DictHas(reg.entities, EntityKey(entity))
         THEN RegisterExisting(reg, entity)
         ELSE RegisterNew(reg, entity)

\* EntityRegistry.resolve_temp_id: ai_id_mapping.get(temp_key)
ResolveTempId(reg, chunk_id, temp_id) ==
    IF DictHas(reg.ai_id_mapping, TempKey(chunk_id, temp_id))
    THEN DictGet(reg.ai_id_mapping, TempKey(chunk_id, temp_id))
    ELSE None

GetAllEntitiesButFirst(reg) ==
    [i \in 1..(Len(reg.entity_details) - 1) |->
        [id |-> reg.entity_details[i + 1].key,
         type |-> reg.entity_details[i + 1].value.entity_type,
         properties |-> reg.entity_details[i + 1].value.properties,
         source_location |-> reg.entity_details[i + 1].value.source_location]]

\* EntityRegistry.get_all_entities
GetAllEntities(reg) ==
    [i \in DOMAIN reg.entity_details |->
        [id |-> reg.entity_details[i].key,
         type |-> reg.entity_details[i].value.entity_type,
         properties |-> reg.entity_details[i].value.properties,
         source_location |-> reg.entity_details[i].value.source_location]]

\* EntityRegistry.get_deduplication_stats (deduplication_rate is a float:
\* kept as the fraction duplicates_removed / total_extracted, 0 / 1 for 0)
GetDeduplicationStats(reg) ==
    LET total_temp_ids == Len(reg.ai_id_mapping)
        unique_entities == Len(reg.entity_details)
        duplicates_removed == total_temp_ids - unique_entities
    IN [total_extracted |-> total_temp_ids,
        unique_entities |-> unique_entities,
        duplicates_removed |-> duplicates_removed,
        deduplication_rate |->
            IF total_temp_ids > 0
            THEN [num |-> duplicates_removed, den |-> total_temp_ids]
            ELSE [num |-> 0, den |-> 1]]

----------------------------------------------------------------------------
(* RelationshipResolver *)

\* str.endswith
EndsWith(s, suffix) ==
    /\ Len(suffix) <= Len(s)
    /\ SubSeq(s, Len(s) - Len(suffix) + 1, Len(s)) = suffix

\* line 202: temp_key.endswith(f"_{temp_id}")
KeyMatches(temp_key, temp_id) == EndsWith(temp_key, <<"_">> \o temp_id)

ResolveTempIdFirstChunk(reg, temp_id) == ResolveTempId(reg, 0, temp_id)

\* RelationshipResolver._resolve_temp_id_any_chunk: the first matching entry
\* in the insertion order of ai_id_mapping
ResolveTempIdAnyChunk(reg, temp_id) ==
    LET hits == {i \in DOMAIN reg.ai_id_mapping : KeyMatches(reg.ai_id_mapping[i].key, temp_id)}
    IN IF hits = {} THEN None
       ELSE reg.ai_id_mapping[CHOOSE i \in hits : \A j \in hits : i <= j].value

\* ExtractedRelationship(...)
ExtractedRelationship(temp_id, relationship_type, source_temp_id, target_temp_id, properties, source_location, chunk_id) ==
    [temp_id |-> temp_id, relationship_type |-> relationship_type,
     source_temp_id |-> source_temp_id, target_temp_id |-> target_temp_id,
     properties |-> properties, source_location |-> source_location,
     chunk_id |-> chunk_id]

ResolvedRelationshipWithoutLocation(rel, id, source_guid, target_guid) ==
    [id |-> id, type |-> rel.relationship_type,
     source_id |-> source_guid, target_id |-> target_guid,
     properties |-> rel.properties, source_location |-> None]

\* lines 175-182: the resolved relationship built from a candidate
ResolvedRelationship(rel, id, source_guid, target_guid) ==
    [id |-> id, type |-> rel.relationship_type,
     source_id |-> source_guid, target_id |-> target_guid,
     properties |-> rel.properties, source_location |-> rel.source_location]

\* lines 168-188: the loop of resolve_relationships from relationship i on;
\* acc holds the two local lists and the uuid counter
RECURSIVE ResolveFrom(_, _, _, _)
ResolveFrom(reg, all_relationships, i, acc) ==
    IF i > Len(all_relationships) THEN acc
    ELSE
      LET rel == all_relationships[i]
          source_guid == ResolveTempIdAnyChunk(reg, rel.source_temp_id)
          target_guid == ResolveTempIdAnyChunk(reg, rel.target_temp_id)
      IN IF Found(source_guid) /\ Found(target_guid)
         THEN ResolveFrom(reg, all_relationships, i + 1,
                 [acc EXCEPT
                    !.next_uuid = @ + 1,
                    !.resolved = Append(@,
                        ResolvedRelationship(rel, Uuid(acc.next_uuid + 1),
                                             source_guid, target_guid))])
         ELSE ResolveFrom(reg, all_relationships, i + 1,
                 [acc EXCEPT !.orphaned = Append(@, rel)])

ResolveRelationshipsReversed(reg, all_relationships) ==
    ResolveFrom(reg, [i \in DOMAIN all_relationships |->
                        all_relationships[Len(all_relationships) + 1 - i]], 1,
                [resolved |-> <<>>, orphaned |-> <<>>, next_uuid |-> reg.next_uuid])

\* RelationshipResolver.resolve_relationships: the two lists it stores (the
\* first is also its return value) and the uuid counter
ResolveRelationships(reg, all_relationships) ==
    ResolveFrom(reg, all_relationships, 1,
                [resolved |-> <<>>, orphaned |-> <<>>, next_uuid |-> reg.next_uuid])

GetRelationshipStatsOfResolved(resolved, orphaned) ==
    [total_relationships |-> Len(resolved),
     resolved_relationships |-> Len(resolved),
     orphaned_relationships |-> Len(orphaned),
     resolution_rate |-> IF Len(resolved) > 0 THEN [num |-> Len(resolved), den |-> Len(resolved)]
                         ELSE [num |-> 0, den |-> 1]]

\* RelationshipResolver.get_relationship_stats
GetRelationshipStats(resolved, orphaned) ==
    LET total_relationships == Len(resolved) + Len(orphaned)
    IN [total_relationships |-> total_relationships,
        resolved_relationships |-> Len(resolved),
        orphaned_relationships |-> Len(orphaned),
        resolution_rate |->
            IF total_relationships > 0
            THEN [num |-> Len(resolved), den |-> total_relationships]
            ELSE [num |-> 0, den |-> 1]]

----------------------------------------------------------------------------
(* EnhancedExtractionProcessor *)

\* dict.get(key, default) on a record of the extraction service's payload
Get(d, key, default) == IF key \in DOMAIN d THEN d[key] ELSE default

\* line 234: "name" not in node_data.get("properties", {})
NameMissing(node_data) == "name" \notin DOMAIN Get(node_data, "properties", <<>>)

\* lines 232-248: the entity loop from node i on; stops at the first
\* register_entity that raises
RECURSIVE ProcessNodesFrom(_, _, _, _)
ProcessNodesFrom(reg, chunk_id, nodes, i) ==
    IF i > Len(nodes) THEN [reg |-> reg, outcome |-> "returned"]
    ELSE
      LET node_data == nodes[i]
      IN IF NameMissing(node_data)
         THEN ProcessNodesFrom(reg, chunk_id, nodes, i + 1)
         ELSE
           LET entity == [temp_id |-> node_data["id"],
                          entity_type |-> node_data["type"],
                          name |-> node_data["properties"]["name"],
                          properties |-> node_data["properties"],
                          source_location |-> Get(node_data, "source_location", None),
                          chunk_id |-> chunk_id]
               r == RegisterEntity(reg, entity)
           IN IF r.outcome = "raised"
              THEN [reg |-> r.reg, outcome |-> "raised"]
              ELSE ProcessNodesFrom(r.reg, chunk_id, nodes, i + 1)

\* lines 251-264: the relationships of the window as ExtractedRelationship
WindowRelationships(chunk_id, relationships) ==
    [i \in DOMAIN relationships |->
        ExtractedRelationship(relationships[i]["id"], relationships[i]["type"],
                              relationships[i]["source_id"], relationships[i]["target_id"],
                              Get(relationships[i], "properties", <<>>),
                              Get(relationships[i], "source_location", None),
                              chunk_id)]

\* EnhancedExtractionProcessor.process_chunk_results
ProcessChunkResults(reg, chunk_id, chunk_result) ==
    LET nodes == Get(chunk_result, "nodes", <<>>)
        done == ProcessNodesFrom(reg, chunk_id, nodes, 1)
    IN IF done.outcome = "raised"
       THEN [reg |-> done.reg, outcome |-> "raised", relationships |-> <<>>]
       ELSE [reg |-> done.reg, outcome |-> "returned",
             relationships |-> WindowRelationships(chunk_id,
                                   Get(chunk_result, "relationships", <<>>))]

----------------------------------------------------------------------------
(* Initial state: a freshly constructed registry, resolver and processor,   *)
(* an empty caller buffer, no call made yet                                 *)

EmptyResults ==
    [nodes |-> <<>>, relationships |-> <<>>,
     metadata |-> [extraction_mode |-> "none",
                   entity_stats |-> [total_extracted |-> 0, unique_entities |-> 0,
                                     duplicates_removed |-> 0,
                                     deduplication_rate |-> [num |-> 0, den |-> 1]],
                   relationship_stats |-> [total_relationships |-> 0,
                                           resolved_relationships |-> 0,
                                           orphaned_relationships |-> 0,
                                           resolution_rate |-> [num |-> 0, den |-> 1]],
                   total_unique_entities |-> 0,
                   total_resolved_relationships |-> 0]]

\* EntityRegistry.__init__
RegistryInit ==
    /\ entities = <<>>
    /\ ai_id_mapping = <<>>
    /\ entity_details = <<>>
    /\ next_uuid = 0
    /\ calls = <<>>

\* RelationshipResolver.__init__
ResolverInit ==
    /\ resolved_relationships = <<>>
    /\ orphaned_relationships = <<>>

\* routes.py: all_extracted_relationships = []
CallerInit ==
    /\ all_extracted_relationships = <<>>
    /\ last_op = "none"
    /\ outcome = "none"
    /\ pcr_calls = 0
    /\ pcr_input = [chunk_id |-> 0, chunk_result |-> [nodes |-> <<>>, relationships |-> <<>>]]
    /\ chunk_relationships = <<>>
    /\ finalize_input = <<>>
    /\ final_results = EmptyResults
    /\ finalize_calls = 0

\* chunk_text is not running
ChunkerIdle ==
    /\ text = <<>>
    /\ chunk_size = 1
    /\ overlap_percentage = 0
    /\ start = 0
    /\ chunks = <<>>
    /\ pc = "idle"

Threads == {1, 2}

\* no thread is inside register_entity
ThreadsIdle ==
    threads = [t \in Threads |-> [pc |-> "ready", entity |-> None, entity_key |-> None]]

Jobs == {1, 2}

\* EnhancedExtractionProcessor.__init__: a new EntityRegistry (lines 39-42)
\* and a new RelationshipResolver (lines 157-159) on it
NewProcessor ==
    [entities |-> <<>>, ai_id_mapping |-> <<>>, entity_details |-> <<>>, calls |-> <<>>,
     resolved_relationships |-> <<>>, orphaned_relationships |-> <<>>]

\* routes.py lines 163-166, once per job: enhanced_processor =
\* EnhancedExtractionProcessor(), all_extracted_relationships = []
JobsStarted ==
    /\ heap = [ref \in Jobs |-> NewProcessor]
    /\ jobs = [j \in Jobs |-> [enhanced_processor |-> j,
                                all_extracted_relationships |-> <<>>,
                                history |-> <<>>,
                                status |-> "processing",
                                final_results |-> EmptyResults]]

\* routes.py lines 131-138: the Extraction record when chunk_text is called
ExtractionProcessing ==
    extraction = [status |-> "processing", total_chunks |-> 0, processed_chunks |-> 0,
                  current_chunk |-> 0, chunk_progress |-> <<>>, pc |-> "chunk_text",
                  i |-> 0, result_status |-> "none"]

\* _normalize_name is not running
NormalizeIdle ==
    normalize_call = [name |-> <<>>, pc |-> "idle", result |-> <<>>, folded |-> <<>>]

Init ==
    /\ RegistryInit /\ ResolverInit /\ CallerInit /\ ChunkerIdle /\ ThreadsIdle /\ JobsStarted
    /\ ExtractionProcessing /\ NormalizeIdle

----------------------------------------------------------------------------
(* RegistrySpec: candidate entities handed to register_entity *)

ORG == <<"org", "_", "1">>                   \* "org_1"
SUB == <<"sub", "_", "org", "_", "1">>       \* "sub_org_1"

ist == <<"i", "s", "t">>
IST == <<"I", "S", "T">>
Ist_padded == <<" ", "I", "s", "t">>         \* " Ist"
i_st == <<"i", " ", "s", "t">>               \* "i st"
blank == <<" ">>                             \* " "
empty == <<>>                                \* ""

\* property maps as the extraction service returns them for a display name
PropertyMaps(name) ==
    { [name |-> name],
      [name |-> name, city |-> "Istanbul"],
      [name |-> name, country |-> "Turkey"],
      [name |-> name, country |-> "Turkey", code |-> "LTFM"],
      [city |-> "Istanbul", country |-> "Turkey"] }

\* ExtractedEntity(temp_id, entity_type, name, properties, chunk_id=...)
ExtractedEntity(temp_id, entity_type, name, properties, chunk_id) ==
    [temp_id |-> temp_id, entity_type |-> entity_type, name |-> name,
     properties |-> properties, source_location |-> None, chunk_id |-> chunk_id]

\* one name in three spellings under three local ids, other names under one
DedupCandidates ==
    { ExtractedEntity(k[2], "Airport", n, [name |-> n], k[1]) :
        k \in {<<0, ORG>>, <<1, ORG>>, <<0, SUB>>}, n \in {ist, IST, Ist_padded} }
    \cup
    { ExtractedEntity(ORG, tn[1], tn[2], [name |-> tn[2]], 0) :
        tn \in {<<"Airport", i_st>>, <<"Airport", blank>>, <<"Airport", empty>>,
                <<"Person", ist>>} }

\* one name, all property maps
MergeCandidates ==
    UNION { { ExtractedEntity(k[2], "Airport", ist, p, k[1]) : p \in PropertyMaps(ist) } :
            k \in {<<0, ORG>>, <<1, ORG>>} }

Candidates == DedupCandidates \cup MergeCandidates

\* a caller invokes registry.register_entity(entity)
RegisterEntityCall(entity) ==
    /\ Len(calls) < MaxCalls
    /\ LET r == RegisterEntity(Registry, entity)
       IN /\ entities' = r.reg.entities
          /\ ai_id_mapping' = r.reg.ai_id_mapping
          /\ entity_details' = r.reg.entity_details
          /\ next_uuid' = r.reg.next_uuid
          /\ calls' = r.reg.calls
          /\ last_op' = "register_entity"
          /\ outcome' = r.outcome
    /\ UNCHANGED <<resolverVars, chunkerVars, all_extracted_relationships, pcr_calls,
                   pcr_input, chunk_relationships, finalize_input, final_results,
                   finalize_calls, concurrentVars, extraction, normalize_call>>

RegistryNext == \E entity \in Candidates : RegisterEntityCall(entity)

RegistrySpec == Init /\ [][RegistryNext]_vars

----------------------------------------------------------------------------
(* Spec: one EnhancedExtractionProcessor and the caller of routes.py *)

GHOST == <<"ghost", "_", "9">>               \* "ghost_9": no node has this id

\* a node and a relationship as the extraction service returns them
Node(id, type, properties) == [id |-> id, type |-> type, properties |-> properties]

Rel(id, type, source_id, target_id) ==
    [id |-> id, type |-> type, source_id |-> source_id, target_id |-> target_id,
     properties |-> [via |-> id], source_location |-> "page of " \o id]

\* window results of the extraction service
WindowOrg ==      \* an airport "org_1" and a relationship to "sub_org_1"
    [nodes |-> <<Node(ORG, "Airport", [name |-> IST, city |-> "Istanbul"])>>,
     relationships |-> <<Rel("rel_1", "SERVES", ORG, SUB)>>]

WindowSub ==      \* a person "sub_org_1" and a relationship to "org_1"
    [nodes |-> <<Node(SUB, "Person", [name |-> ist])>>,
     relationships |-> <<Rel("rel_2", "USES", SUB, ORG)>>]

WindowSame ==     \* a person under the local id "org_1", no source_location
    [nodes |-> <<Node(ORG, "Person", [name |-> ist])>>,
     relationships |-> <<[id |-> "rel_3", type |-> "KNOWS", source_id |-> ORG,
                          target_id |-> ORG, properties |-> [via |-> "rel_3"]]>>]

WindowEmpty ==    \* a node with an empty name before a good one
    [nodes |-> <<Node(SUB, "Airport", [name |-> empty]),
                 Node(ORG, "Airport", [name |-> ist])>>,
     relationships |-> <<Rel("rel_4", "NEAR", ORG, ORG)>>]

WindowMissing ==  \* a node without a name before a good one, a dangling relationship
    [nodes |-> <<Node(SUB, "Airport", [city |-> "Istanbul"]),
                 Node(ORG, "Airport", [name |-> ist])>>,
     relationships |-> <<Rel("rel_5", "NEAR", ORG, GHOST)>>]

WindowResults == {WindowOrg, WindowSub, WindowSame, WindowEmpty, WindowMissing}

ChunkIds == {0, 1}

\* routes.py lines 208-214 inside the try of the chunk loop:
\*   chunk_relationships = enhanced_processor.process_chunk_results(i, {...})
\*   all_extracted_relationships.extend(chunk_relationships)
\* and the except branch that goes on with the next chunk
ProcessChunk(chunk_id, chunk_result) ==
    /\ pcr_calls < MaxWindows
    /\ LET r == ProcessChunkResults(Registry, chunk_id, chunk_result)
       IN /\ entities' = r.reg.entities
          /\ ai_id_mapping' = r.reg.ai_id_mapping
          /\ entity_details' = r.reg.entity_details
          /\ next_uuid' = r.reg.next_uuid
          /\ calls' = r.reg.calls
          /\ outcome' = r.outcome
          /\ chunk_relationships' = r.relationships
          /\ all_extracted_relationships' =
                IF r.outcome = "returned"
                THEN all_extracted_relationships \o r.relationships
                ELSE all_extracted_relationships
    /\ last_op' = "process_chunk_results"
    /\ pcr_calls' = pcr_calls + 1
    /\ pcr_input' = [chunk_id |-> chunk_id, chunk_result |-> chunk_result]
    /\ UNCHANGED <<resolverVars, chunkerVars, finalize_input, final_results,
                   finalize_calls, concurrentVars, extraction, normalize_call>>

\* lines 280-292: the results finalize_extraction returns for the registry
\* reg and the outcome r of resolve_relationships
FinalResults(reg, r) ==
    [nodes |-> GetAllEntities(reg),
     relationships |-> r.resolved,
     metadata |->
        [extraction_mode |-> "enhanced",
         entity_stats |-> GetDeduplicationStats(reg),
         relationship_stats |-> GetRelationshipStats(r.resolved, r.orphaned),
         total_unique_entities |-> Len(GetAllEntities(reg)),
         total_resolved_relationships |-> Len(r.resolved)]]

\* EnhancedExtractionProcessor.finalize_extraction(all_extracted_relationships)
\* (routes.py line 252)
FinalizeExtraction ==
    /\ finalize_calls < MaxFinalize
    /\ LET r == ResolveRelationships(Registry, all_extracted_relationships)
       IN /\ resolved_relationships' = r.resolved
          /\ orphaned_relationships' = r.orphaned
          /\ next_uuid' = r.next_uuid
          /\ final_results' = FinalResults(Registry, r)
    /\ finalize_input' = all_extracted_relationships
    /\ finalize_calls' = finalize_calls + 1
    /\ last_op' = "finalize_extraction"
    /\ outcome' = "returned"
    /\ UNCHANGED <<entities, ai_id_mapping, entity_details, calls, chunkerVars,
                   all_extracted_relationships, pcr_calls, pcr_input,
                   chunk_relationships, concurrentVars, extraction, normalize_call>>

Next ==
    \/ \E chunk_id \in ChunkIds, chunk_result \in WindowResults :
          ProcessChunk(chunk_id, chunk_result)
    \/ FinalizeExtraction

Spec == Init /\ [][Next]_vars

----------------------------------------------------------------------------
(* ChunkSpec: file_processor.chunk_text, one loop iteration per step *)

Min(a, b) == IF a < b THEN a ELSE b
Max(a, b) == IF a > b THEN a ELSE b

\* s[a:b] of Python: a negative index counts from the end, both are clamped
SliceIndex(s, a) == IF a < 0 THEN Max(Len(s) + a, 0) ELSE Min(a, Len(s))
Slice(s, a, b) == SubSeq(s, SliceIndex(s, a) + 1, SliceIndex(s, b))

\* a text of n characters; a character is represented by its index
TextOfLen(n) == [i \in 1..n |-> i - 1]

OverlapPercentages == {0, 25, 50, 100}

\* line 166: overlap_size = int(chunk_size * overlap_percentage / 100)
OverlapSize == (chunk_size * overlap_percentage) \div 100

\* chunk_text(text, chunk_size, overlap_percentage) is about to be called
ChunkInit ==
    /\ RegistryInit /\ ResolverInit /\ CallerInit /\ ThreadsIdle /\ JobsStarted
    /\ ExtractionProcessing /\ NormalizeIdle
    /\ text \in {TextOfLen(n) : n \in 0..MaxTextLen}
    /\ chunk_size \in 1..MaxChunkSize
    /\ overlap_percentage \in OverlapPercentages
    /\ start = 0
    /\ chunks = <<>>
    /\ pc = "call"

\* lines 163-169: the early return for an empty text, the initialisation
ChunkTextEnter ==
    /\ pc = "call"
    /\ IF text = <<>> THEN pc' = "returned" ELSE pc' = "loop"
    /\ start' = 0
    /\ chunks' = <<>>
    /\ UNCHANGED <<registryVars, resolverVars, callerVars, text, chunk_size,
                   overlap_percentage, concurrentVars, extraction, normalize_call>>

\* lines 171-190: the test of the while loop and one iteration of its body
ChunkTextIteration ==
    /\ pc = "loop"
    /\ Len(chunks) < MaxChunks
    /\ IF start < Len(text)
       THEN LET end == Min(start + chunk_size, Len(text))
                chunk == Slice(text, start, end)
            IN /\ chunks' = Append(chunks,
                      [chunk_id |-> <<"chunk", "_", ToString(Len(chunks))>>,
                       text |-> chunk,
                       start_char |-> start,
                       end_char |-> end,
                       size |-> Len(chunk)])
               /\ start' = end - OverlapSize
               /\ pc' = IF end - OverlapSize >= end THEN "returned" ELSE "loop"
       ELSE /\ pc' = "returned"
            /\ UNCHANGED <<start, chunks>>
    /\ UNCHANGED <<registryVars, resolverVars, callerVars, text, chunk_size,
                   overlap_percentage, concurrentVars, extraction, normalize_call>>

ChunkNext == ChunkTextEnter \/ ChunkTextIteration

ChunkSpec == ChunkInit /\ [][ChunkNext]_vars

----------------------------------------------------------------------------
(* RaceSpec: two threads call register_entity on one registry.  The method  *)
(* takes no lock, so a thread switch can fall between the membership test   *)
(* of line 82 and the branch it selects.                                    *)

MaxRaceCalls == 3     \* register_entity calls in RaceSpec

\* the entities a thread registers: its own window, one local id
RaceCandidates(t) ==
    { ExtractedEntity(ORG, tn[1], tn[2], [name |-> tn[2]], t - 1) :
        tn \in {<<"Airport", ist>>, <<"Airport", IST>>, <<"Airport", empty>>,
                <<"Person", ist>>} }

\* the calls that have been entered
CallsEntered == Len(calls) + Cardinality({t \in Threads : threads[t].pc # "ready"})

\* lines 72-82: thread t enters register_entity(entity), raises for an empty
\* name, else computes the key and tests "entity_key in self.entities"
ThreadTest(t, entity) ==
    /\ threads[t].pc = "ready"
    /\ CallsEntered < MaxRaceCalls
    /\ IF ~Truthy(entity.name)
       THEN /\ calls' = RegisterRaises(Registry, entity).reg.calls
            /\ outcome' = "raised"
            /\ last_op' = "register_entity"
            /\ UNCHANGED threads
       ELSE /\ threads' = [threads EXCEPT ![t] =
                   [pc |-> IF DictHas(entities, EntityKey(entity)) THEN "exists" ELSE "new",
                    entity |-> entity,
                    entity_key |-> EntityKey(entity)]]
            /\ UNCHANGED <<calls, outcome, last_op>>
    /\ UNCHANGED <<entities, ai_id_mapping, entity_details, next_uuid, resolverVars,
                   chunkerVars, all_extracted_relationships, pcr_calls, pcr_input,
                   chunk_relationships, finalize_input, final_results, finalize_calls,
                   heap, jobs, extraction, normalize_call>>

\* thread t leaves register_entity with the registry r.reg
ThreadReturns(t, r) ==
    /\ entities' = r.reg.entities
    /\ ai_id_mapping' = r.reg.ai_id_mapping
    /\ entity_details' = r.reg.entity_details
    /\ next_uuid' = r.reg.next_uuid
    /\ calls' = r.reg.calls
    /\ last_op' = "register_entity"
    /\ outcome' = r.outcome
    /\ threads' = [threads EXCEPT ![t] = [pc |-> "ready", entity |-> None,
                                          entity_key |-> None]]
    /\ UNCHANGED <<resolverVars, chunkerVars, all_extracted_relationships, pcr_calls,
                   pcr_input, chunk_relationships, finalize_input, final_results,
                   finalize_calls, heap, jobs, extraction, normalize_call>>

\* lines 83-98 in thread t, which found the key
ThreadRegisterExisting(t) ==
    /\ threads[t].pc = "exists"
    /\ ThreadReturns(t, RegisterExisting(Registry, threads[t].entity))

\* lines 100-115 in thread t, which did not find the key
ThreadRegisterNew(t) ==
    /\ threads[t].pc = "new"
    /\ ThreadReturns(t, RegisterNew(Registry, threads[t].entity))

RaceNext ==
    \E t \in Threads :
        \/ \E entity \in RaceCandidates(t) : ThreadTest(t, entity)
        \/ ThreadRegisterExisting(t)
        \/ ThreadRegisterNew(t)

RaceSpec == Init /\ [][RaceNext]_vars

----------------------------------------------------------------------------
(* JobsSpec: two extraction jobs run process_data_extraction at the same    *)
(* time (a background task each), each on the processor it constructed; a   *)
(* step is one process_chunk_results or finalize_extraction call of a job.  *)
(* uuid.uuid4() is the one process-wide source of GUIDs.                    *)

WindowPair ==     \* an airport and a person, a relationship between them
    [nodes |-> <<Node(ORG, "Airport", [name |-> Ist_padded, country |-> "Turkey"]),
                 Node(SUB, "Person", [name |-> ist])>>,
     relationships |-> <<Rel("rel_6", "EMPLOYS", ORG, SUB)>>]

JobWindows == {WindowOrg, WindowPair, WindowMissing, WindowEmpty}

ProcessorOfFirstJob(j) == jobs[1].enhanced_processor

\* the local variable enhanced_processor of job j
ProcessorOf(j) == jobs[j].enhanced_processor

\* the EntityRegistry of the processor ref as one value
RegistryOf(ref) ==
    [entities |-> heap[ref].entities, ai_id_mapping |-> heap[ref].ai_id_mapping,
     entity_details |-> heap[ref].entity_details, next_uuid |-> next_uuid,
     calls |-> heap[ref].calls]

\* routes.py lines 208-214 in job j: process_chunk_results(chunk_id,
\* chunk_result) on its processor, the relationships go to its buffer (an
\* exception is caught by the handler of line 239)
JobProcessChunk(j, chunk_id, chunk_result) ==
    /\ jobs[j].status = "processing"
    /\ \A i \in DOMAIN jobs[j].history : jobs[j].history[i].chunk_id # chunk_id
    /\ LET ref == ProcessorOf(j)
           r == ProcessChunkResults(RegistryOf(ref), chunk_id, chunk_result)
       IN /\ heap' = [heap EXCEPT ![ref] =
                         [@ EXCEPT !.entities = r.reg.entities,
                                   !.ai_id_mapping = r.reg.ai_id_mapping,
                                   !.entity_details = r.reg.entity_details,
                                   !.calls = r.reg.calls]]
          /\ next_uuid' = r.reg.next_uuid
          /\ jobs' = [jobs EXCEPT ![j] =
                         [@ EXCEPT !.all_extracted_relationships =
                                       IF r.outcome = "returned"
                                       THEN @ \o r.relationships ELSE @,
                                   !.history = Append(@, [chunk_id |-> chunk_id,
                                                          chunk_result |-> chunk_result])]]
    /\ UNCHANGED <<entities, ai_id_mapping, entity_details, calls, resolverVars,
                   callerVars, chunkerVars, threads, extraction, normalize_call>>

\* routes.py line 252 in job j: finalize_extraction(all_extracted_relationships),
\* after which the job is completed
JobFinalize(j) ==
    /\ jobs[j].status = "processing"
    /\ LET ref == ProcessorOf(j)
           r == ResolveRelationships(RegistryOf(ref), jobs[j].all_extracted_relationships)
       IN /\ heap' = [heap EXCEPT ![ref] =
                         [@ EXCEPT !.resolved_relationships = r.resolved,
                                   !.orphaned_relationships = r.orphaned]]
          /\ next_uuid' = r.next_uuid
          /\ jobs' = [jobs EXCEPT ![j] =
                         [@ EXCEPT !.final_results = FinalResults(RegistryOf(ref), r),
                                   !.status = "completed"]]
    /\ UNCHANGED <<entities, ai_id_mapping, entity_details, calls, resolverVars,
                   callerVars, chunkerVars, threads, extraction, normalize_call>>

JobsNext ==
    \E j \in Jobs :
        \/ \E chunk_id \in ChunkIds, chunk_result \in JobWindows :
              JobProcessChunk(j, chunk_id, chunk_result)
        \/ JobFinalize(j)

JobsSpec == Init /\ [][JobsNext]_vars

\* a job run alone: routes.py lines 163-248 on a new processor, from window
\* i of the given windows on
RECURSIVE FeedFrom(_, _, _)
FeedFrom(windows, i, acc) ==
    IF i > Len(windows) THEN acc
    ELSE LET r == ProcessChunkResults(acc.reg, windows[i].chunk_id, windows[i].chunk_result)
         IN FeedFrom(windows, i + 1,
                [reg |-> r.reg,
                 relationships |-> IF r.outcome = "returned"
                                   THEN acc.relationships \o r.relationships
                                   ELSE acc.relationships])

RunAlone(windows) ==
    FeedFrom(windows, 1,
             [reg |-> [entities |-> <<>>, ai_id_mapping |-> <<>>, entity_details |-> <<>>,
                       next_uuid |-> 0, calls |-> <<>>],
              relationships |-> <<>>])

\* ... and routes.py line 252 after them
FinalizeAlone(windows) ==
    FinalResults(RunAlone(windows).reg,
                 ResolveRelationships(RunAlone(windows).reg, RunAlone(windows).relationships))

----------------------------------------------------------------------------
(* RouteSpec: one run of process_data_extraction.  It calls chunk_text      *)
(* (the actions of ChunkSpec), then runs the loop over the chunks returned, *)
(* one iteration per step, then finalize_extraction.  What the extraction   *)
(* service does for a chunk is the environment's choice.  Failures of the   *)
(* database session are not modelled.                                       *)

\* extract_data_with_ontology raises, or returns a state with status "error",
\* or one with status "extraction_completed" and a window's nodes and
\* relationships (ai_agents.py lines 528-532)
ExtractionOutcomes ==
    {[status |-> "raised"], [status |-> "error"]}
    \cup {[status |-> "extraction_completed",
           extracted_nodes |-> w.nodes,
           extracted_relationships |-> w.relationships] : w \in WindowResults}

JobError(e, i) == [e EXCEPT !.status = "error", !.pc = "done"]

\* lines 231-236 and 239-248: chunk i is marked as error, the loop goes on
ChunkError(e, i) ==
    [e EXCEPT !.chunk_progress[i + 1].status = "error",
              !.processed_chunks = i + 1,
              !.i = i + 1]

\* lines 220-229: chunk i is marked as completed
ChunkCompleted(e, i, nodes_count, relationships_count) ==
    [e EXCEPT !.chunk_progress[i + 1] = [status |-> "completed",
                                         nodes_count |-> nodes_count,
                                         relationships_count |-> relationships_count],
              !.processed_chunks = i + 1,
              !.i = i + 1]

FinalizeAnyTime == extraction.i >= 0

\* the for loop of line 170 has run over every chunk
LoopExhausted == extraction.i >= Len(chunks)

\* lines 146-166: chunk_text has returned; no chunks is an error, else the
\* progress list is set up and the processor constructed
RouteAfterChunkText ==
    /\ extraction.pc = "chunk_text"
    /\ pc = "returned"
    /\ IF Len(chunks) = 0
       THEN extraction' = [extraction EXCEPT !.status = "error", !.pc = "done"]
       ELSE extraction' =
              [extraction EXCEPT
                  !.total_chunks = Len(chunks),
                  !.chunk_progress = [k \in DOMAIN chunks |->
                      [status |-> "pending", nodes_count |-> 0, relationships_count |-> 0]],
                  !.pc = "loop",
                  !.i = 0]
    /\ UNCHANGED <<registryVars, resolverVars, callerVars, chunkerVars, concurrentVars,
                   normalize_call>>

\* lines 170-248: one iteration of the loop, for chunk i and what the
\* extraction service did for it
RouteChunk(result) ==
    /\ extraction.pc = "loop"
    /\ ~LoopExhausted
    /\ LET i == extraction.i
           e == [extraction EXCEPT !.current_chunk = i + 1, !.result_status = result.status]
       IN IF result.status # "extraction_completed"
          THEN /\ extraction' = ChunkError(e, i)
               /\ UNCHANGED <<registryVars, callerVars>>
          ELSE LET r == ProcessChunkResults(Registry, i,
                            [nodes |-> result.extracted_nodes,
                             relationships |-> result.extracted_relationships])
               IN /\ entities' = r.reg.entities
                  /\ ai_id_mapping' = r.reg.ai_id_mapping
                  /\ entity_details' = r.reg.entity_details
                  /\ next_uuid' = r.reg.next_uuid
                  /\ calls' = r.reg.calls
                  /\ outcome' = r.outcome
                  /\ chunk_relationships' = r.relationships
                  /\ last_op' = "process_chunk_results"
                  /\ pcr_calls' = pcr_calls + 1
                  /\ pcr_input' = [chunk_id |-> i,
                                   chunk_result |-> [nodes |-> result.extracted_nodes,
                                       relationships |-> result.extracted_relationships]]
                  /\ UNCHANGED <<finalize_input, final_results, finalize_calls>>
                  /\ IF r.outcome = "raised"
                     THEN /\ extraction' = ChunkError(e, i)
                          /\ UNCHANGED all_extracted_relationships
                     ELSE /\ extraction' = ChunkCompleted(e, i, Len(r.reg.entity_details),
                                                          Len(r.relationships))
                          /\ all_extracted_relationships' =
                                all_extracted_relationships \o r.relationships
    /\ UNCHANGED <<resolverVars, chunkerVars, concurrentVars, normalize_call>>

\* lines 250-278: after the loop, finalize_extraction and status "completed"
RouteFinalize ==
    /\ extraction.pc = "loop"
    /\ LoopExhausted
    /\ LET r == ResolveRelationships(Registry, all_extracted_relationships)
       IN /\ resolved_relationships' = r.resolved
          /\ orphaned_relationships' = r.orphaned
          /\ next_uuid' = r.next_uuid
          /\ final_results' = FinalResults(Registry, r)
    /\ finalize_input' = all_extracted_relationships
    /\ finalize_calls' = finalize_calls + 1
    /\ last_op' = "finalize_extraction"
    /\ outcome' = "returned"
    /\ extraction' = [extraction EXCEPT !.status = "completed", !.pc = "done"]
    /\ UNCHANGED <<entities, ai_id_mapping, entity_details, calls, chunkerVars,
                   all_extracted_relationships, pcr_calls, pcr_input,
                   chunk_relationships, concurrentVars, normalize_call>>

RouteNext ==
    \/ ChunkTextEnter
    \/ ChunkTextIteration
    \/ RouteAfterChunkText
    \/ \E result \in ExtractionOutcomes : RouteChunk(result)
    \/ RouteFinalize

RouteSpec == ChunkInit /\ [][RouteNext]_vars

----------------------------------------------------------------------------
(* NormalizeSpec: one call of EntityRegistry._normalize_name on any name    *)
(* over a small alphabet, and the same call on the name trimmed and lowered *)

MaxNameLen == 5       \* len(name) in NormalizeSpec

NameAlphabet == {"i", "T", " ", "1"}

Names == UNION {[1..n -> NameAlphabet] : n \in 0..MaxNameLen}

\* registry._normalize_name(name) is about to be called
NormalizeInit ==
    /\ RegistryInit /\ ResolverInit /\ CallerInit /\ ChunkerIdle /\ ThreadsIdle /\ JobsStarted
    /\ ExtractionProcessing
    /\ normalize_call \in {[name |-> name, pc |-> "call", result |-> <<>>, folded |-> <<>>] :
                              name \in Names}

\* lines 44-65: the call returns; folded is what it returns for the name
\* trimmed and lowered
NormalizeNameCall ==
    /\ normalize_call.pc = "call"
    /\ normalize_call' =
          [normalize_call EXCEPT
              !.pc = "returned",
              !.result = NormalizeName(normalize_call.name),
              !.folded = NormalizeName(Lower(Strip(normalize_call.name)))]
    /\ UNCHANGED <<registryVars, resolverVars, callerVars, chunkerVars, concurrentVars,
                   extraction>>

NormalizeSpec == NormalizeInit /\ [][NormalizeNameCall]_vars

----------------------------------------------------------------------------
(* Vocabulary of the properties: what a call was given and what it got      *)

Returned(c) == c.outcome = "returned"

\* the (entity_type, normalized name) key of a logged call
CallKey(c) == <<c.entity.entity_type, NormalizeName(c.entity.name)>>

\* the calls that registered something
Registered == SelectSeq(calls, Returned)

\* the canonical entity stored under a GUID
Canonical(guid) == DictGet(entity_details, guid)

\* the stats the registry reports now
Stats == GetDeduplicationStats(Registry)

\* C1: for one registry and any sequence of register_entity calls, every call
\* whose entity has a given (entity_type, normalized name) key returns the GUID
\* that the first such call allocated, the registry keeps exactly that GUID
\* for the key, distinct keys have distinct GUIDs, and there is exactly one
\* canonical entity per key.
C1_OneGuidPerKey ==
    /\ \A i, j \in DOMAIN Registered :
          (CallKey(Registered[i]) = CallKey(Registered[j]))
              <=> (Registered[i].guid = Registered[j].guid)
    /\ \A i \in DOMAIN Registered :
          /\ DictHas(entities, CallKey(Registered[i]))
          /\ DictGet(entities, CallKey(Registered[i])) = Registered[i].guid
          /\ DictHas(entity_details, Registered[i].guid)
          /\ <<Canonical(Registered[i].guid).entity_type, Canonical(Registered[i].guid).name>>
                = CallKey(Registered[i])
    /\ Len(entity_details) = Cardinality({CallKey(Registered[i]) : i \in DOMAIN Registered})
    /\ Len(entities) = Len(entity_details)

\* C1 witness: three calls, two of them with differently spelled names of one
\* key and a third one with another key
C1_Witness ==
    /\ Len(Registered) = 3
    /\ \E i, j, k \in DOMAIN Registered :
          /\ i < j
          /\ Registered[i].entity.name # Registered[j].entity.name
          /\ CallKey(Registered[i]) = CallKey(Registered[j])
          /\ Registered[i].guid = Registered[j].guid
          /\ CallKey(Registered[k]) # CallKey(Registered[i])

\* a name with every whitespace character removed
WithoutWhitespace(s) == SelectSeq(s, LAMBDA c : c \notin Whitespace)

\* the registered candidates all have one type and names that differ at most
\* by letter case and by whitespace anywhere in the name
SameUpToCaseAndWhitespace ==
    \A i, j \in DOMAIN Registered :
        /\ Registered[i].entity.entity_type = Registered[j].entity.entity_type
        /\ Lower(WithoutWhitespace(Registered[i].entity.name))
              = Lower(WithoutWhitespace(Registered[j].entity.name))

\* ... at most by letter case and by leading and trailing whitespace
SameUpToCaseAndSurroundingWhitespace ==
    \A i, j \in DOMAIN Registered :
        /\ Registered[i].entity.entity_type = Registered[j].entity.entity_type
        /\ Lower(Strip(Registered[i].entity.name)) = Lower(Strip(Registered[j].entity.name))

\* the distinct (chunk_id, temp_id) pairs the candidates were registered under
RegisteredPairs ==
    {<<Registered[i].entity.chunk_id, Registered[i].entity.temp_id>> : i \in DOMAIN Registered}

C10_MoreCompleteWins ==
    [][ (Len(calls') = Len(calls) + 1 /\ Returned(calls'[Len(calls')])
            /\ DictHas(entities, CallKey(calls'[Len(calls')])))
        => LET call == calls'[Len(calls')]
               guid == DictGet(entities, CallKey(call))
               stored == DictGet(entity_details, guid).properties
               observed == call.entity.properties
               now == DictGet(entity_details', guid).properties
           IN /\ call.guid = guid
              /\ IF Cardinality(DOMAIN observed) > Cardinality(DOMAIN stored)
                 THEN now = PropSet(observed, "name", CallKey(call)[2])
                 ELSE now = stored
      ]_vars

\* C10 witness: a first observation with {name, city}, an equally large one
\* with {name, country} that left it alone, then one with three keys that
\* replaced it: the stored map has no 'city' any more
C10_Witness ==
    /\ Len(Registered) = 3
    /\ CallKey(Registered[1]) = CallKey(Registered[2])
    /\ CallKey(Registered[2]) = CallKey(Registered[3])
    /\ DOMAIN Registered[1].entity.properties = {"name", "city"}
    /\ DOMAIN Registered[2].entity.properties = {"name", "country"}
    /\ DOMAIN Registered[3].entity.properties = {"name", "country", "code"}
    /\ DOMAIN Canonical(Registered[1].guid).properties = {"name", "country", "code"}
    /\ Canonical(Registered[1].guid).properties["name"] = IST

\* C14: after k register_entity calls that returned, total_extracted = k, and
\* every (chunk_id, temp_id) of such a call resolves through resolve_temp_id
\* to the GUID that the call returned.
C14_OneMappingEntryPerCall ==
    /\ Stats.total_extracted = Len(Registered)
    /\ \A i \in DOMAIN Registered :
          ResolveTempId(Registry, Registered[i].entity.chunk_id, Registered[i].entity.temp_id)
              = Registered[i].guid

\* C17: after any sequence of register_entity calls, every canonical entity
\* that get_all_entities returns belongs to one dedup key, and its
\* properties['name'] is the normalized name of that key, which is the
\* normalized name of every observation registered under its GUID.
C17_CanonicalNameIsNormalized ==
    LET all == GetAllEntities(Registry)
    IN /\ Len(all) = Len(entities)
       /\ \A i \in DOMAIN all :
             /\ \E k \in DOMAIN entities :
                   /\ entities[k].value = all[i].id
                   /\ "name" \in DOMAIN all[i].properties
                   /\ all[i].properties["name"] = entities[k].key[2]
             /\ \A j \in DOMAIN Registered :
                   Registered[j].guid = all[i].id
                      => all[i].properties["name"] = NormalizeName(Registered[j].entity.name)

\* C17 witness: 'i st' is stored as 'I St'; 'ist' observed with {name} and
\* then with {city, country} (more keys, no name) is stored with the second
\* map and name 'IST'
C17_Witness ==
    /\ Len(Registered) = 3
    /\ Registered[1].entity.name = i_st
    /\ GetAllEntities(Registry)[1].properties["name"] = <<"I", " ", "S", "t">>
    /\ Registered[2].entity.properties = [name |-> ist]
    /\ DOMAIN Registered[3].entity.properties = {"city", "country"}
    /\ Registered[3].guid = Registered[2].guid
    /\ Len(entity_details) = 2
    /\ GetAllEntities(Registry)[2].properties
          = [city |-> "Istanbul", country |-> "Turkey", name |-> IST]

\* C25: no canonical entity has an empty name: every entity that
\* get_all_entities returns has a non-empty properties['name'], and a
\* register_entity call for a candidate whose name is empty or only
\* whitespace raises, creating no entity and no identity-mapping entry.
C25_NoEmptyCanonicalName ==
    /\ \A i \in DOMAIN GetAllEntities(Registry) :
          /\ "name" \in DOMAIN GetAllEntities(Registry)[i].properties
          /\ GetAllEntities(Registry)[i].properties["name"] # <<>>
    /\ \A i \in DOMAIN calls :
          Strip(calls[i].entity.name) = <<>> => calls[i].outcome = "raised"

\* C29: over any sequence of register_entity calls a canonical entity keeps
\* its GUID, its type and its normalized name, its key keeps its GUID, and
\* the number of its stored property keys never decreases.
C29_CanonicalEntityOnlyGrows ==
    [][ /\ \A i \in DOMAIN entity_details :
              LET before == entity_details[i].value
                  after == entity_details'[i].value
              IN /\ i \in DOMAIN entity_details'
                 /\ entity_details'[i].key = entity_details[i].key
                 /\ after.entity_type = before.entity_type
                 /\ after.name = before.name
                 /\ after.properties["name"] = before.properties["name"]
                 /\ Cardinality(DOMAIN after.properties)
                       >= Cardinality(DOMAIN before.properties)
        /\ \A k \in DOMAIN entities :
              k \in DOMAIN entities' /\ entities'[k] = entities[k]
      ]_vars

\* C29 witness: one key observed with 1, then 3, then 2 property keys: the
\* second observation replaced the first, the third was not stored
C29_Witness ==
    /\ Len(Registered) = 3
    /\ Len(entity_details) = 1
    /\ Cardinality(DOMAIN Registered[1].entity.properties) = 1
    /\ Cardinality(DOMAIN Registered[2].entity.properties) = 3
    /\ Cardinality(DOMAIN Registered[3].entity.properties) = 2
    /\ entity_details[1].key = Registered[1].guid
    /\ entity_details[1].value.properties
          = PropSet(Registered[2].entity.properties, "name", IST)

\* C27: unique_entities <= total_extracted, so duplicates_removed is never
\* negative and deduplication_rate is in [0, 1), after any sequence of
\* register_entity calls.
C27_StatsNeverNegative ==
    /\ Stats.unique_entities <= Stats.total_extracted
    /\ Stats.duplicates_removed >= 0
    /\ Stats.deduplication_rate.num >= 0
    /\ Stats.deduplication_rate.num < Stats.deduplication_rate.den

----------------------------------------------------------------------------
(* Properties of process_data_extraction (RouteSpec) *)

ChunkFailed ==
    \/ extraction.result_status \in {"raised", "error"}
    \/ extraction.result_status = "extraction_completed" /\ outcome = "raised"

----------------------------------------------------------------------------
(* Properties of _normalize_name (NormalizeSpec) *)

\* C21: _normalize_name returns for a name what it returns for the name
\* trimmed and lowered, so names equal up to letter case and surrounding
\* whitespace normalize to one string; that string is the trimmed name in
\* title case, except that a trimmed name of at most 4 characters, all
\* letters, is returned in upper case.
C21_NormalizeIgnoresCaseAndTrim ==
    normalize_call.pc = "returned"
        => LET trimmed == Strip(normalize_call.name)
           IN /\ normalize_call.result = normalize_call.folded
              /\ normalize_call.result =
                    IF /\ trimmed # <<>>
                       /\ Len(trimmed) <= ShortNameLen
                       /\ \A k \in DOMAIN trimmed : IsAlphaChar(trimmed[k])
                    THEN Upper(trimmed)
                    ELSE Title(trimmed)

\* C21 witness: ' iT ' gives 'IT' and 'iT 1i' gives 'It 1I'
C21_Witness ==
    /\ normalize_call.pc = "returned"
    /\ \/ /\ normalize_call.name = <<" ", "i", "T", " ">>
          /\ normalize_call.result = <<"I", "T">>
       \/ /\ normalize_call.name = <<"i", "T", " ", "1", "i">>
          /\ normalize_call.result = <<"I", "t", " ", "1", "I">>

----------------------------------------------------------------------------
(* Properties of concurrent register_entity calls (RaceSpec) *)

\* C11: register_entity tests and creates under mutual exclusion: however the
\* calls of two threads on one registry interleave, the calls for one key
\* return one GUID, and exactly one GUID has been created per registered key.
C11_OneGuidUnderInterleaving ==
    /\ \A i, j \in DOMAIN Registered :
          CallKey(Registered[i]) = CallKey(Registered[j])
              => Registered[i].guid = Registered[j].guid
    /\ next_uuid = Cardinality({CallKey(Registered[i]) : i \in DOMAIN Registered})
    /\ Len(entity_details) = next_uuid

----------------------------------------------------------------------------
(* Properties of two jobs (JobsSpec) *)

\* the candidates that the registry of processor ref registered
RegisteredBy(ref) ==
    {c.entity : c \in {x \in Range(heap[ref].calls) : Returned(x)}}

\* two candidates got one GUID from the registry of processor ref
ShareGuid(ref, e1, e2) ==
    \E c1, c2 \in Range(heap[ref].calls) :
        /\ Returned(c1) /\ Returned(c2)
        /\ c1.entity = e1 /\ c2.entity = e2
        /\ c1.guid = c2.guid

\* the (chunk_id, chunk_result) windows fed to the processor of job j
WindowsFed(j) == Range(jobs[j].history)

\* C19: when two processors have been fed the same set of window results,
\* each window once, in whatever orders, they hold the same set of
\* (type, normalized name) keys, have registered the same candidates, and two
\* candidates share a GUID in one iff they share a GUID in the other.
C19_DedupIsOrderIndependent ==
    WindowsFed(1) = WindowsFed(2)
        => /\ DictKeys(heap[1].entities) = DictKeys(heap[2].entities)
           /\ RegisteredBy(1) = RegisteredBy(2)
           /\ \A e1, e2 \in RegisteredBy(1) :
                 ShareGuid(1, e1, e2) <=> ShareGuid(2, e1, e2)

\* C19 witness: the two jobs were fed the same two windows in opposite orders
\* and each merged a candidate of one window with one of the other
C19_Witness ==
    /\ Len(jobs[1].history) = 2
    /\ Len(jobs[2].history) = 2
    /\ jobs[1].history[1] = jobs[2].history[2]
    /\ jobs[1].history[2] = jobs[2].history[1]
    /\ jobs[1].history[1] # jobs[1].history[2]
    /\ \E e1, e2 \in RegisteredBy(1) :
          /\ e1.chunk_id # e2.chunk_id
          /\ e1.name # e2.name
          /\ ShareGuid(1, e1, e2)
          /\ ShareGuid(2, e1, e2)

\* the position of the entity with a GUID in a dict keyed by GUIDs or in a
\* list of nodes: GUIDs are compared up to the values uuid4 happened to return
GuidIndex(details, guid) == CHOOSE i \in DOMAIN details : details[i].key = guid

NodeIndex(nodes, guid) == CHOOSE i \in DOMAIN nodes : nodes[i].id = guid

RegistryShape(reg) ==
    [entities |->
        [i \in DOMAIN reg.entities |->
            [key |-> reg.entities[i].key,
             value |-> GuidIndex(reg.entity_details, reg.entities[i].value)]],
     ai_id_mapping |->
        [i \in DOMAIN reg.ai_id_mapping |->
            [key |-> reg.ai_id_mapping[i].key,
             value |-> GuidIndex(reg.entity_details, reg.ai_id_mapping[i].value)]],
     entity_details |->
        [i \in DOMAIN reg.entity_details |->
            [reg.entity_details[i].value EXCEPT !.temp_id = i]]]

ResultsShape(results) ==
    [nodes |-> [i \in DOMAIN results.nodes |-> [results.nodes[i] EXCEPT !.id = i]],
     relationships |->
        [i \in DOMAIN results.relationships |->
            [results.relationships[i] EXCEPT
                !.id = i,
                !.source_id = NodeIndex(results.nodes, @),
                !.target_id = NodeIndex(results.nodes, @)]],
     metadata |-> results.metadata]

\* C20: however the process_chunk_results and finalize_extraction calls of
\* two jobs interleave, each job's entities, identity mapping, canonical
\* entities, relationship buffer and final results are those that the job
\* produces from its own windows when it runs alone (GUIDs compared up to the
\* values drawn).
C20_JobsDoNotInterfere ==
    \A j \in Jobs :
        LET alone == RunAlone(jobs[j].history)
        IN /\ RegistryShape(RegistryOf(jobs[j].enhanced_processor)) = RegistryShape(alone.reg)
           /\ jobs[j].all_extracted_relationships = alone.relationships
           /\ (jobs[j].status = "completed")
                 => ResultsShape(jobs[j].final_results)
                       = ResultsShape(FinalizeAlone(jobs[j].history))

\* C20 witness: both jobs are completed with a resolved relationship each,
\* and job 2 registered an entity between two entities of job 1
C20_Witness ==
    /\ \A j \in Jobs :
          /\ jobs[j].status = "completed"
          /\ Len(jobs[j].final_results.relationships) >= 1
    /\ \E a, b, c \in 1..next_uuid :
          /\ a < b /\ b < c
          /\ DictHas(heap[1].entity_details, Uuid(a))
          /\ DictHas(heap[2].entity_details, Uuid(b))
          /\ DictHas(heap[1].entity_details, Uuid(c))

----------------------------------------------------------------------------
(* Properties of the resolver and the processor (Spec) *)

\* the GUIDs register_entity returned for entities registered under a local id
GuidsOf(temp_id) ==
    {Registered[i].guid : i \in {j \in DOMAIN Registered : Registered[j].entity.temp_id = temp_id}}

\* a relationship with an endpoint that no window registered
HasUnregisteredEndpoint(rel) ==
    GuidsOf(rel.source_temp_id) = {} \/ GuidsOf(rel.target_temp_id) = {}

JustFinalized == last_op = "finalize_extraction"

JustProcessed == last_op = "process_chunk_results"

\* C3: when every relationship handed to finalize_extraction has both its
\* source_temp_id and its target_temp_id registered by some window, each is
\* resolved, in order, to GUIDs that register_entity returned for entities
\* registered under exactly those two local ids, whatever the chunk_id of the
\* relationship and the order of the windows.
C3_ResolvesToRegisteredGuids ==
    (/\ JustFinalized
     /\ \A i \in DOMAIN finalize_input : ~HasUnregisteredEndpoint(finalize_input[i]))
        => /\ Len(final_results.relationships) = Len(finalize_input)
           /\ \A i \in DOMAIN finalize_input :
                 /\ final_results.relationships[i].source_id
                       \in GuidsOf(finalize_input[i].source_temp_id)
                 /\ final_results.relationships[i].target_id
                       \in GuidsOf(finalize_input[i].target_temp_id)

\* C4: finalize_extraction returns; the relationships with an endpoint that no
\* window registered are exactly, one by one, among the orphaned ones, and
\* none of them is in the returned list.
C4_UnregisteredEndpointIsOrphaned ==
    JustFinalized
        => /\ outcome = "returned"
           /\ SelectSeq(orphaned_relationships, HasUnregisteredEndpoint)
                 = SelectSeq(finalize_input, HasUnregisteredEndpoint)
           /\ final_results.metadata.relationship_stats.orphaned_relationships
                 >= Len(SelectSeq(finalize_input, HasUnregisteredEndpoint))
           /\ Len(final_results.relationships)
                 <= Len(finalize_input) - Len(SelectSeq(finalize_input, HasUnregisteredEndpoint))

\* C7: a second finalize_extraction on the same processor raises instead of
\* returning a result.
C7_SecondFinalizeRaises ==
    (JustFinalized /\ finalize_calls >= 2) => outcome = "raised"

\* C8: once finalize_extraction has been called, a process_chunk_results call
\* is rejected and leaves the registry as it was.
C8_FinalizedIsTerminal ==
    [][ (finalize_calls >= 1 /\ pcr_calls' = pcr_calls + 1)
            => /\ outcome' = "raised"
               /\ entities' = entities
               /\ entity_details' = entity_details
               /\ ai_id_mapping' = ai_id_mapping ]_vars

\* a node of the window without a usable display name
NameMissingOrEmpty(node_data) ==
    \/ "name" \notin DOMAIN node_data.properties
    \/ node_data.properties["name"] = <<>>

\* C9: a process_chunk_results call on a window with a node whose name is
\* missing or empty returns, has registered every other node of the window
\* under (chunk_id, id), and returns all relationships of the window.
C9_BadNodeIsSkipped ==
    LET nodes == pcr_input.chunk_result.nodes
        relationships == pcr_input.chunk_result.relationships
    IN (JustProcessed /\ \E i \in DOMAIN nodes : NameMissingOrEmpty(nodes[i]))
        => /\ outcome = "returned"
           /\ \A i \in DOMAIN nodes :
                 ~NameMissingOrEmpty(nodes[i])
                    => DictHas(ai_id_mapping, TempKey(pcr_input.chunk_id, nodes[i].id))
           /\ Len(chunk_relationships) = Len(relationships)
           /\ \A i \in DOMAIN relationships :
                 /\ chunk_relationships[i].temp_id = relationships[i].id
                 /\ chunk_relationships[i].source_temp_id = relationships[i].source_id
                 /\ chunk_relationships[i].target_temp_id = relationships[i].target_id

\* C13: process_chunk_results does not resolve: a call leaves the resolver's
\* resolved and orphaned lists as they were and, when it returns, returns the
\* window's relationships with their original source and target temp ids; a
\* finalize_extraction call orphans no relationship whose two temp ids were
\* registered by some window, whether before or after the relationship's own
\* window.
C13_ResolutionIsDeferred ==
    [][ /\ (pcr_calls' = pcr_calls + 1)
            => /\ resolved_relationships' = resolved_relationships
               /\ orphaned_relationships' = orphaned_relationships
               /\ (outcome' = "returned")
                     => LET relationships == pcr_input'.chunk_result.relationships
                        IN /\ Len(chunk_relationships') = Len(relationships)
                           /\ \A i \in DOMAIN relationships :
                                 /\ chunk_relationships'[i].source_temp_id
                                       = relationships[i].source_id
                                 /\ chunk_relationships'[i].target_temp_id
                                       = relationships[i].target_id
                                 /\ chunk_relationships'[i].chunk_id = pcr_input'.chunk_id
        /\ (finalize_calls' = finalize_calls + 1)
            => \A i \in DOMAIN orphaned_relationships' :
                  HasUnregisteredEndpoint(orphaned_relationships'[i])
      ]_vars

\* C13 witness: window 0 registered 'org_1' and returned a relationship to
\* 'sub_org_1', which window 1 registered afterwards; finalize_extraction
\* resolved it to the two GUIDs and orphaned nothing
C13_Witness ==
    /\ JustFinalized
    /\ pcr_calls = 2
    /\ Len(Registered) = 2
    /\ Registered[1].entity.chunk_id = 0
    /\ Registered[2].entity.chunk_id = 1
    /\ finalize_input[1].chunk_id = 0
    /\ finalize_input[1].target_temp_id = Registered[2].entity.temp_id
    /\ GuidsOf(finalize_input[1].target_temp_id) = {Registered[2].guid}
    /\ resolved_relationships[1].source_id = Registered[1].guid
    /\ resolved_relationships[1].target_id = Registered[2].guid
    /\ orphaned_relationships = <<>>

\* the relationships handed to finalize_extraction that it did not orphan
NotOrphaned == SelectSeq(finalize_input, LAMBDA rel : rel \notin Range(orphaned_relationships))

\* C18: every relationship that resolve_relationships emits carries its
\* candidate's type, properties and source_location unchanged, has GUIDs of
\* canonical entities of the job as endpoints, and has an id that differs from
\* the id of every other emitted relationship and of every entity of the job.
C18_ResolvedKeepsCandidateFields ==
    JustFinalized
        => /\ final_results.relationships = resolved_relationships
           /\ Len(resolved_relationships) = Len(NotOrphaned)
           /\ \A i \in DOMAIN resolved_relationships :
                 LET resolved == resolved_relationships[i]
                 IN /\ resolved.type = NotOrphaned[i].relationship_type
                    /\ resolved.properties = NotOrphaned[i].properties
                    /\ resolved.source_location = NotOrphaned[i].source_location
                    /\ DictHas(entity_details, resolved.source_id)
                    /\ DictHas(entity_details, resolved.target_id)
                    /\ ~DictHas(entity_details, resolved.id)
                    /\ \A j \in DOMAIN resolved_relationships :
                          resolved_relationships[j].id = resolved.id => j = i

\* C18 witness: three windows; a relationship with a source_location and one
\* without were resolved, a dangling one was orphaned
C18_Witness ==
    /\ JustFinalized
    /\ Len(resolved_relationships) = 2
    /\ Len(orphaned_relationships) = 1
    /\ Len(entity_details) >= 2
    /\ \E i, j \in DOMAIN resolved_relationships :
          /\ resolved_relationships[i].source_location = None
          /\ resolved_relationships[j].source_location # None
          /\ resolved_relationships[j].properties = [via |-> "rel_2"]
          /\ resolved_relationships[i].id # resolved_relationships[j].id

\* the local id was registered in window w and, for another canonical entity,
\* in another window
RegisteredInTwoWindows(w, temp_id) ==
    \E a, b \in DOMAIN Registered :
        /\ Registered[a].entity.temp_id = temp_id
        /\ Registered[b].entity.temp_id = temp_id
        /\ Registered[a].entity.chunk_id = w
        /\ Registered[b].entity.chunk_id # w
        /\ Registered[a].guid # Registered[b].guid

\* C26: when a local id is registered in two windows for two canonical
\* entities, a relationship buffered from window w that references it
\* resolves, for that endpoint, to the GUID registered under (w, local id),
\* not to the entity of the other window.
C26_ResolvesInOwnWindowFirst ==
    JustFinalized
        => \A i \in DOMAIN resolved_relationships :
              /\ i <= Len(NotOrphaned)
              /\ LET rel == NotOrphaned[i]
                 IN /\ RegisteredInTwoWindows(rel.chunk_id, rel.source_temp_id)
                         => resolved_relationships[i].source_id
                               = ResolveTempId(Registry, rel.chunk_id, rel.source_temp_id)
                    /\ RegisteredInTwoWindows(rel.chunk_id, rel.target_temp_id)
                         => resolved_relationships[i].target_id
                               = ResolveTempId(Registry, rel.chunk_id, rel.target_temp_id)

\* C28: the final graph has no dangling edge: the source_id and target_id
\* of every relationship of a finalize_extraction result are ids of nodes of
\* that result, and in every state every GUID of the identity mapping and of
\* the key index is a key of the entity details.
C28_NoDanglingEdges ==
    /\ JustFinalized
          => \A i \in DOMAIN final_results.relationships :
                /\ \E n \in DOMAIN final_results.nodes :
                      final_results.nodes[n].id = final_results.relationships[i].source_id
                /\ \E n \in DOMAIN final_results.nodes :
                      final_results.nodes[n].id = final_results.relationships[i].target_id
    /\ \A i \in DOMAIN ai_id_mapping : DictHas(entity_details, ai_id_mapping[i].value)
    /\ \A i \in DOMAIN entities : DictHas(entity_details, entities[i].value)

\* C28 witness: a result with two nodes and a relationship from one to the
\* other
C28_Witness ==
    /\ JustFinalized
    /\ Len(final_results.nodes) = 2
    /\ \E i \in DOMAIN final_results.relationships :
          /\ final_results.relationships[i].source_id = final_results.nodes[1].id
          /\ final_results.relationships[i].target_id = final_results.nodes[2].id

\* both local ids of a relationship resolve in the registry
Resolvable(rel) ==
    /\ Found(ResolveTempIdAnyChunk(Registry, rel.source_temp_id))
    /\ Found(ResolveTempIdAnyChunk(Registry, rel.target_temp_id))

\* C30: resolve_relationships leaves the registry's entities, identity
\* mapping and entity details as they were; its output is, in input order and
\* without deduplication, one relationship for each input relationship whose
\* two local ids resolve, and the others are the orphaned list.
C30_ResolveIsASubsequence ==
    [][ (finalize_calls' = finalize_calls + 1)
            => /\ entities' = entities
               /\ ai_id_mapping' = ai_id_mapping
               /\ entity_details' = entity_details
               /\ LET kept == SelectSeq(finalize_input', Resolvable)
                      dropped == SelectSeq(finalize_input', LAMBDA rel : ~Resolvable(rel))
                  IN /\ orphaned_relationships' = dropped
                     /\ Len(resolved_relationships') = Len(kept)
                     /\ \A i \in DOMAIN kept :
                           LET resolved == resolved_relationships'[i]
                           IN /\ resolved.type = kept[i].relationship_type
                              /\ resolved.properties = kept[i].properties
                              /\ resolved.source_location = kept[i].source_location
                              /\ resolved.source_id
                                    = ResolveTempIdAnyChunk(Registry, kept[i].source_temp_id)
                              /\ resolved.target_id
                                    = ResolveTempIdAnyChunk(Registry, kept[i].target_temp_id)
      ]_vars

\* C30 witness: two windows returned the same relationship; both copies were
\* resolved, after a different relationship and in the order of the input
C30_Witness ==
    /\ JustFinalized
    /\ Len(finalize_input) = 3
    /\ finalize_input[1].temp_id # finalize_input[2].temp_id
    /\ finalize_input[2].chunk_id # finalize_input[3].chunk_id
    /\ [finalize_input[2] EXCEPT !.chunk_id = 0] = [finalize_input[3] EXCEPT !.chunk_id = 0]
    /\ Len(resolved_relationships) = 3
    /\ resolved_relationships[1].properties = finalize_input[1].properties
    /\ resolved_relationships[2].properties = finalize_input[2].properties
    /\ resolved_relationships[2].id # resolved_relationships[3].id

\* C24: after resolve_relationships(rs) every relationship of rs is either
\* resolved or orphaned: the orphaned list is a subsequence of rs, the
\* resolved list has one entry for each other relationship, and
\* get_relationship_stats reports total_relationships = len(rs) =
\* resolved_relationships + orphaned_relationships, with resolution_rate 0
\* for an empty rs.
C24_ResolvedOrOrphaned ==
    JustFinalized
        => LET stats == final_results.metadata.relationship_stats
           IN /\ SelectSeq(finalize_input, LAMBDA rel : rel \in Range(orphaned_relationships))
                    = orphaned_relationships
              /\ Len(resolved_relationships) + Len(orphaned_relationships) = Len(finalize_input)
              /\ stats.total_relationships = Len(finalize_input)
              /\ stats.resolved_relationships = Len(resolved_relationships)
              /\ stats.orphaned_relationships = Len(orphaned_relationships)
              /\ stats.total_relationships
                    = stats.resolved_relationships + stats.orphaned_relationships
              /\ stats.resolution_rate =
                    IF finalize_input = <<>> THEN [num |-> 0, den |-> 1]
                    ELSE [num |-> Len(resolved_relationships), den |-> Len(finalize_input)]

\* C24 witness: of three relationships two were resolved and one orphaned
C24_Witness ==
    /\ JustFinalized
    /\ Len(finalize_input) = 3
    /\ Len(resolved_relationships) = 2
    /\ Len(orphaned_relationships) = 1
    /\ final_results.metadata.relationship_stats.resolution_rate = [num |-> 2, den |-> 3]

----------------------------------------------------------------------------
(* Properties of chunk_text (ChunkSpec) *)

\* C5: with overlap < chunk_size, once a window with end_char = len(text) has
\* been emitted the loop stops: that window is the last one and no window is
\* emitted twice.
C5_StopsAfterFinalWindow ==
    OverlapSize < chunk_size
        => /\ \A i \in DOMAIN chunks :
                 chunks[i].end_char = Len(text) => i = Len(chunks)
           /\ \A i, j \in DOMAIN chunks :
                 (chunks[i].start_char = chunks[j].start_char
                    /\ chunks[i].end_char = chunks[j].end_char) => i = j

\* C6: with overlap < chunk_size, the windows chunk_text returns cover the
\* text: every index in [0, len(text)) lies in [start_char, end_char) of one.
C6_WindowsCoverText ==
    (pc = "returned" /\ OverlapSize < chunk_size)
        => \A k \in 0..(Len(text) - 1) :
              \E i \in DOMAIN chunks :
                 chunks[i].start_char <= k /\ k < chunks[i].end_char

\* C12: when overlap >= chunk_size (overlap_percentage = 100) chunk_text does
\* not emit windows whose start fails to advance: either the call is rejected
\* before any window is produced, or the overlap is clamped so that every
\* window starts after the one before it.
C12_DegenerateOverlapRejected ==
    OverlapSize >= chunk_size
        => \/ chunks = <<>>
           \/ \A i \in 1..(Len(chunks) - 1) :
                 chunks[i].start_char < chunks[i + 1].start_char

\* C15: with overlap < chunk_size every emitted window has
\* end_char - start_char = len(window text) = size and
\* 0 <= start_char <= end_char <= len(text), also for a text shorter than the
\* overlap.
C15_WindowOffsetsConsistent ==
    OverlapSize < chunk_size
        => \A i \in DOMAIN chunks :
              /\ chunks[i].end_char - chunks[i].start_char = Len(chunks[i].text)
              /\ Len(chunks[i].text) = chunks[i].size
              /\ 0 <= chunks[i].start_char
              /\ chunks[i].start_char <= chunks[i].end_char
              /\ chunks[i].end_char <= Len(text)

\* C16: with overlap < chunk_size each window starts strictly after the
\* window before it.
C16_StartStrictlyIncreases ==
    OverlapSize < chunk_size
        => \A i \in 1..(Len(chunks) - 1) :
              chunks[i].start_char < chunks[i + 1].start_char

====
